---- MODULE Spec2Model ----
(***************************************************************************)
(* Character-level RNN notebook (tensorboard/Anna_KaRNNa.ipynb): the       *)
(* vocabulary cell, split_data, get_batch, the training loop and sample.   *)
(* The tensor framework (session, graph, optimizer) is external: an        *)
(* evaluation of the network is modelled by what the notebook feeds into   *)
(* it and what it keeps of the result.  A recurrent state is named by the  *)
(* evaluation that returned it (0 = the zero state of initial_state).      *)
(* Strings are sequences of one-character strings; a matrix is a sequence  *)
(* of rows.                                                                *)
(***************************************************************************)
EXTENDS Integers, Sequences, FiniteSets, TLC

\* ---------------------------------------------------------------- bounds
MaxLen == 8
MaxB == 2
MaxT == 2
MaxEpochs == 2
MaxSaveEvery == 2
MaxPrime == 2
MaxSamples == 2
MaxWeight == 2
MaxV == 3
MaxVocabLen == 4
MaxTopN == 4

\* ------------------------------------------------------- python helpers
Min(p, q) == IF p < q THEN p ELSE q

Range(s) == {s[k] : k \in DOMAIN s}

\* s[lo:hi] for 0 <= lo, 0 <= hi: the elements at 0-based positions lo..hi-1 that
\* exist; out-of-range bounds are clipped, never an error.
PySlice(s, lo, hi) == SubSeq(s, lo + 1, Min(hi, Len(s)))

\* m[:, lo:hi]
ColSlice(m, lo, hi) == [i \in DOMAIN m |-> PySlice(m[i], lo, hi)]

\* m.shape[1] of a matrix with at least one row
Cols(m) == Len(m[1])

SeqsUpTo(S, n) == UNION {[1..k -> S] : k \in 0..n}

\* All enumeration orders of a finite set (iteration order of a python set
\* is not specified; it is one order, the same for both enumerations of the
\* unchanged set in the vocabulary cell).
Orders(S) == {o \in [1..Cardinality(S) -> S] : Range(o) = S}

VARIABLES pc, text, vocab, vocab_to_int, int_to_vocab, chars,
          batch_size, num_steps, split_frac,
          train_x, train_y, val_x, val_y,
          arrs, gb_steps, yielded,
          epochs, save_every_n, n_batches, iterations, e, b, iteration,
          new_state, loss, val_loss, vb, checkpoints, opt_steps, evals,
          prime_arg, n_samples, prime, samples, sample_state, preds,
          s_x, s_c, s_i, pk, result, picks,
          pick_preds, pick_top, pick_p, pick_c, rerun_vocab_to_int

vocabVars == <<vocab, vocab_to_int, int_to_vocab, chars>>
splitVars == <<batch_size, num_steps, split_frac,
               train_x, train_y, val_x, val_y>>
genVars == <<arrs, gb_steps, yielded>>

trainVars == <<epochs, save_every_n, n_batches, iterations, e, b, iteration,
               new_state, loss, val_loss, vb, checkpoints, opt_steps>>

\* s_x, s_c and s_i are the locals x, c and i of sample; picks is the log of
\* the calls of pick_top_n sample made: the evaluation whose preds was passed
\* and the index returned
sampleVars == <<prime_arg, n_samples, prime, samples, sample_state, preds,
                s_x, s_c, s_i, pk, result, picks>>

\* a call of pick_top_n on its own: the preds and top_n passed, the array p
\* after the zeroing, the index returned
pickVars == <<pick_preds, pick_top, pick_p, pick_c>>

vars == <<pc, text, vocabVars, splitVars, genVars, trainVars, evals,
          sampleVars, pickVars, rerun_vocab_to_int>>

\* --------------------------------------------------------- vocabulary cell
\* vocab = set(text); vocab_to_int = {c: i for i, c in enumerate(vocab)};
\* int_to_vocab = dict(enumerate(vocab)); chars = [vocab_to_int[c] for c in text]

\* {c: i for i, c in enumerate(vocab)} when the set is enumerated in order
VocabToInt(order) ==
    [ch \in Range(order) |-> (CHOOSE k \in DOMAIN order : order[k] = ch) - 1]

\* mutant of IntToVocab: the second enumeration runs the other way round
IntToVocab_Reversed(order) ==
    [k \in 0..(Len(order) - 1) |-> order[Len(order) - k]]

\* dict(enumerate(vocab)) when the set is enumerated in order
IntToVocab(order) == [k \in 0..(Len(order) - 1) |-> order[k + 1]]

\* np.array([vocab_to_int[c] for c in text])
Encode(t, v2i) == [k \in DOMAIN t |-> v2i[t[k]]]

VocabularyCell ==
    /\ pc = "vocab"
    /\ \E order \in Orders(Range(text)) :
         /\ vocab' = Range(text)
         /\ vocab_to_int' = VocabToInt(order)
         /\ int_to_vocab' = IntToVocab(order)
         /\ chars' = Encode(text, VocabToInt(order))
    /\ pc' = "cells"
    /\ UNCHANGED <<pickVars, rerun_vocab_to_int, text, splitVars, genVars,
                   trainVars, evals, sampleVars>>

\* The vocabulary cell run again in another interpreter process on the same
\* text (a later session that loads a checkpoint): the set is enumerated in
\* an order of that process.
VocabularyCellRerun ==
    /\ pc = "cells"
    /\ \E order \in Orders(Range(text)) :
         rerun_vocab_to_int' = VocabToInt(order)
    /\ pc' = "rerun_done"
    /\ UNCHANGED <<pickVars, text, vocabVars, splitVars, genVars, trainVars,
                   evals, sampleVars>>

\* ---------------------------------------------------- vocabulary claims
\* C13: vocab_to_int is a bijection from the distinct characters of the text
\* onto the codes 0..V-1, int_to_vocab is its inverse, and the encoded
\* corpus has one code per character in order, so that decoding it with
\* int_to_vocab gives the text back.
C13_VocabularyBijection ==
    pc # "vocab" =>
      LET V == Cardinality(Range(text)) IN
      /\ DOMAIN vocab_to_int = Range(text)
      /\ {vocab_to_int[ch] : ch \in Range(text)} = 0..(V - 1)
      /\ \A c1, c2 \in Range(text) :
           vocab_to_int[c1] = vocab_to_int[c2] => c1 = c2
      /\ DOMAIN int_to_vocab = 0..(V - 1)
      /\ \A ch \in Range(text) : int_to_vocab[vocab_to_int[ch]] = ch
      /\ \A k \in 0..(V - 1) : vocab_to_int[int_to_vocab[k]] = k
      /\ Len(chars) = Len(text)
      /\ \A k \in DOMAIN text :
           /\ chars[k] = vocab_to_int[text[k]]
           /\ int_to_vocab[chars[k]] = text[k]

\* C13 witness: a text of three distinct characters with a repetition, coded
\* in another order than that of first occurrence.
C13_Witness ==
    /\ pc = "cells"
    /\ text = <<"A", "B", "A", "C">>
    /\ chars = <<2, 0, 2, 1>>

\* C14: two executions of the vocabulary cell on the same text give every
\* character the same code.
C14_VocabularyReproducible ==
    pc = "rerun_done" => rerun_vocab_to_int = vocab_to_int

\* -------------------------------------------------------------- split_data
\* slice_size = batch_size * num_steps
SliceSize(B, T) == B * T

\* n_batches = int(len(chars) / slice_size)
NBatches(cs, B, T) == Len(cs) \div SliceSize(B, T)

\* x = chars[: n_batches*slice_size]
SplitX(cs, B, T) == PySlice(cs, 0, NBatches(cs, B, T) * SliceSize(B, T))

\* mutant of SplitY: the targets are not shifted
SplitY_NoShift(cs, B, T) ==
    PySlice(cs, 0, NBatches(cs, B, T) * SliceSize(B, T))

\* y = chars[1: n_batches*slice_size + 1]
SplitY(cs, B, T) == PySlice(cs, 1, NBatches(cs, B, T) * SliceSize(B, T) + 1)

\* np.split(a, sections) raises ValueError unless len(a) is a multiple of
\* sections ("array split does not result in an equal division").
NpSplitOk(a, sections) == Len(a) % sections = 0

\* mutant of NpSplitStack: row i takes every sections-th element
NpSplitStack_Strided(a, sections) ==
    [i \in 1..sections |->
        [j \in 1..(Len(a) \div sections) |-> a[(j - 1) * sections + i]]]

\* np.stack(np.split(a, sections)): sections contiguous equal chunks, stacked
NpSplitStack(a, sections) ==
    [i \in 1..sections |->
        SubSeq(a, (i - 1) * (Len(a) \div sections) + 1,
                  i * (Len(a) \div sections))]

\* split_idx = int(n_batches*split_frac); split_frac is the fraction
\* f[1]/f[2], every one of SplitFracs a value whose product with a small
\* integer truncates as the exact product does.
SplitIdx(cs, B, T, f) == (NBatches(cs, B, T) * f[1]) \div f[2]

\* The value split_data returns, or the exception it raises.
split_data(cs, B, T, f) ==
    IF ~(NpSplitOk(SplitX(cs, B, T), B) /\ NpSplitOk(SplitY(cs, B, T), B))
    THEN [raised |-> "ValueError",
          train_x |-> <<>>, train_y |-> <<>>, val_x |-> <<>>, val_y |-> <<>>]
    ELSE LET x == NpSplitStack(SplitX(cs, B, T), B)
             y == NpSplitStack(SplitY(cs, B, T), B)
             cut == SplitIdx(cs, B, T, f) * T
         IN [raised |-> "",
             train_x |-> ColSlice(x, 0, cut),
             train_y |-> ColSlice(y, 0, cut),
             val_x |-> [i \in DOMAIN x |-> PySlice(x[i], cut, Len(x[i]))],
             val_y |-> [i \in DOMAIN y |-> PySlice(y[i], cut, Len(y[i]))]]

\* split fractions: 0, 1/2, the default 0.9, 1
SplitFracs == {<<0, 1>>, <<1, 2>>, <<9, 10>>, <<1, 1>>}

\* train_x, train_y, val_x, val_y = split_data(chars, batch_size, num_steps, f)
SplitDataCall ==
    /\ pc = "cells"
    /\ \E B \in 1..MaxB, T \in 1..MaxT, f \in SplitFracs :
         LET r == split_data(chars, B, T, f) IN
         /\ batch_size' = B
         /\ num_steps' = T
         /\ split_frac' = f
         /\ train_x' = r.train_x
         /\ train_y' = r.train_y
         /\ val_x' = r.val_x
         /\ val_y' = r.val_y
         /\ pc' = IF r.raised = "" THEN "split_done" ELSE r.raised
    /\ UNCHANGED <<pickVars, rerun_vocab_to_int, text, vocabVars, genVars, trainVars, evals, sampleVars>>

\* --------------------------------------------------------------- get_batch
\* mutant of GetBatchCount: a last, partial window is counted too
GetBatchCount_Ceil(as, T) == (Cols(as[1]) + T - 1) \div T

\* batch_size, slice_size = arrs[0].shape; n_batches = int(slice_size/num_steps)
GetBatchCount(as, T) == Cols(as[1]) \div T

\* The items get_batch(arrs, num_steps) yields, in the order it yields them:
\* for b in range(n_batches): yield [x[:, b*num_steps: (b+1)*num_steps] for x in arrs]
get_batch(as, T) ==
    [k \in 1..GetBatchCount(as, T) |->
        [m \in DOMAIN as |-> ColSlice(as[m], (k - 1) * T, k * T)]]

\* a generator is made over the matrices of the last split, with a window
\* width of its own
GetBatchCall ==
    /\ pc = "split_done"
    /\ \E as \in {<<train_x, train_y>>, <<val_x, val_y>>, <<train_x>>},
          T \in 1..MaxT :
         /\ arrs' = as
         /\ gb_steps' = T
    /\ yielded' = <<>>
    /\ pc' = "gen"
    /\ UNCHANGED <<pickVars, rerun_vocab_to_int, text, vocabVars, splitVars, trainVars, evals, sampleVars>>

\* next(gen) returns the next item
GetBatchNext ==
    /\ pc = "gen"
    /\ Len(yielded) < Len(get_batch(arrs, gb_steps))
    /\ yielded' = Append(yielded, get_batch(arrs, gb_steps)[Len(yielded) + 1])
    /\ UNCHANGED <<pickVars, rerun_vocab_to_int, pc, text, vocabVars, splitVars, arrs, gb_steps, trainVars, evals, sampleVars>>

\* next(gen) raises StopIteration: the range is exhausted
GetBatchStop ==
    /\ pc = "gen"
    /\ Len(yielded) = Len(get_batch(arrs, gb_steps))
    /\ pc' = "gen_done"
    /\ UNCHANGED <<pickVars, rerun_vocab_to_int, text, vocabVars, splitVars, genVars, trainVars, evals, sampleVars>>

\* ------------------------------------------------------ split_data claims
\* the input matrix of row i: train_x columns followed by val_x columns
InputRow(i) == train_x[i] \o val_x[i]

\* shard_len = n_batches * num_steps of the last split_data call
ShardLen == NBatches(chars, batch_size, num_steps) * num_steps

SameShape(m1, m2) ==
    /\ Len(m1) = Len(m2)
    /\ \A i \in DOMAIN m1 : Len(m1[i]) = Len(m2[i])

\* C2: for every corpus of length L >= B*T, exact multiples of B*T included,
\* split_data returns without error and each target matrix has the shape of
\* its input matrix; the corpus 0,1,0,1,0,1,0,1 (ABABABAB) with batch_size 2,
\* num_steps 2, split_frac 1.0 gives a (2,4) input whose first train window
\* is [[0,1],[0,1]] with target [[1,0],[1,0]].
C2_SplitReturnsSameShapes ==
    (/\ pc \in {"split_done", "ValueError"}
     /\ Len(chars) >= batch_size * num_steps)
    => /\ pc = "split_done"
       /\ SameShape(train_x, train_y)
       /\ SameShape(val_x, val_y)
       /\ (/\ chars = <<0, 1, 0, 1, 0, 1, 0, 1>>
           /\ batch_size = 2 /\ num_steps = 2 /\ split_frac = <<1, 1>>)
          => /\ NBatches(chars, batch_size, num_steps) = 2
             /\ Len(train_x) = 2 /\ Cols(train_x) = 4
             /\ ColSlice(train_x, 0, 2) = <<<<0, 1>>, <<0, 1>>>>
             /\ ColSlice(train_y, 0, 2) = <<<<1, 0>>, <<1, 0>>>>

\* C5: after split_data returns, wherever the corpus has a character after
\* the one at input position (i, j), the target matrix has an entry at
\* (i, j) and it is that next corpus character, in the train and in the
\* validation part, last column of every row included.
C5_TargetIsNextChar ==
    pc = "split_done" =>
      \A i \in 1..batch_size :
        /\ \A j \in 1..Len(train_x[i]) :
             LET pos == (i - 1) * ShardLen + j IN
             pos + 1 <= Len(chars) =>
               /\ j \in DOMAIN train_y[i]
               /\ train_y[i][j] = chars[pos + 1]
        /\ \A j \in 1..Len(val_x[i]) :
             LET pos == (i - 1) * ShardLen + Len(train_x[i]) + j IN
             pos + 1 <= Len(chars) =>
               /\ j \in DOMAIN val_y[i]
               /\ val_y[i][j] = chars[pos + 1]

\* C5 witness: two rows of three columns, one train and two validation; the
\* target of the last column of row 1 is the first character of row 2's
\* shard and differs from the input there, and the last row's last target is
\* the character after the truncated input.
C5_Witness ==
    /\ pc = "split_done"
    /\ batch_size = 2 /\ num_steps = 1 /\ ShardLen = 3
    /\ Len(train_y[1]) = 1 /\ Len(val_x[1]) = 2 /\ Len(val_y[2]) = 2
    /\ val_y[1][2] = chars[4] /\ val_y[1][2] # val_x[1][2]
    /\ val_y[2][2] = chars[7] /\ val_y[2][2] # val_x[2][2]

\* C6: row i of the input matrix (train_x columns then val_x columns) holds
\* exactly the corpus positions [i*shard_len, (i+1)*shard_len) in order, so
\* the rows in row order are the corpus prefix of length n_batches*B*T.
C6_RowsAreShards ==
    pc = "split_done" =>
      /\ Len(train_x) = batch_size /\ Len(val_x) = batch_size
      /\ \A i \in 1..batch_size :
           /\ Len(InputRow(i)) = ShardLen
           /\ \A j \in 1..ShardLen :
                InputRow(i)[j] = chars[(i - 1) * ShardLen + j]
      /\ \A k \in 1..(batch_size * ShardLen) :
           InputRow(((k - 1) \div ShardLen) + 1)[((k - 1) % ShardLen) + 1]
             = chars[k]

\* C6 witness: two shards that differ, each split into a train and a
\* validation part, with corpus left over after the truncation.
C6_Witness ==
    /\ pc = "split_done"
    /\ batch_size = 2 /\ ShardLen = 3
    /\ Len(train_x[1]) = 1 /\ Len(val_x[1]) = 2
    /\ InputRow(1) # InputRow(2)
    /\ InputRow(1) = <<0, 0, 1>>
    /\ Len(chars) > 6

\* C7: the four matrices have B rows; train_x and train_y have exactly
\* floor(n_batches*f)*T columns, val_x and val_y the remaining ones, so every
\* row length is a multiple of T and train + validation columns = n_batches*T.
C7_SplitColumnCounts ==
    pc = "split_done" =>
      LET tc == SplitIdx(chars, batch_size, num_steps, split_frac) * num_steps
      IN /\ Len(train_x) = batch_size /\ Len(train_y) = batch_size
         /\ Len(val_x) = batch_size /\ Len(val_y) = batch_size
         /\ \A i \in 1..batch_size :
              /\ Len(train_x[i]) = tc /\ Len(train_y[i]) = tc
              /\ Len(val_x[i]) = ShardLen - tc
              /\ Len(val_y[i]) = ShardLen - tc
              /\ Len(train_y[i]) % num_steps = 0
              /\ Len(val_y[i]) % num_steps = 0

\* ------------------------------------------------------- get_batch claims
\* C8: for matrices that all have C columns get_batch yields exactly
\* floor(C/T) items; the k-th item (from 0) holds, for each matrix, all rows
\* of the columns [k*T, (k+1)*T): every window is T wide, the offsets
\* increase, all slices of an item share the offset, and the last C mod T
\* columns are never yielded.
C8_GetBatchWindows ==
    (/\ pc \in {"gen", "gen_done"}
     /\ \A m \in DOMAIN arrs : SameShape(arrs[m], arrs[1]))
    => LET C == Cols(arrs[1]) IN
       /\ Len(yielded) <= C \div gb_steps
       /\ pc = "gen_done" => Len(yielded) = C \div gb_steps
       /\ \A k \in 1..Len(yielded) :
            /\ DOMAIN yielded[k] = DOMAIN arrs
            /\ \A m \in DOMAIN arrs :
                 /\ Len(yielded[k][m]) = Len(arrs[m])
                 /\ \A i \in DOMAIN arrs[m] :
                      /\ Len(yielded[k][m][i]) = gb_steps
                      /\ \A t \in 1..gb_steps :
                           yielded[k][m][i][t]
                             = arrs[m][i][(k - 1) * gb_steps + t]

\* C8 witness: a finished generator over two matrices of three columns and
\* window width 2: one window was yielded and the third column was dropped.
C8_Witness ==
    /\ pc = "gen_done"
    /\ Len(arrs) = 2 /\ SameShape(arrs[1], arrs[2])
    /\ Len(arrs[1]) = 2 /\ Cols(arrs[1]) = 3 /\ gb_steps = 2
    /\ Len(yielded) = 1
    /\ yielded[1][1] # yielded[1][2]


\* ---------------------------------------------------------- training loop
\* The placeholders inputs and targets have shape [batch_size, num_steps];
\* session.run rejects a fed array of any other shape with a ValueError.
FeedOk(w, B, T) ==
    /\ Len(w) = B
    /\ \A i \in DOMAIN w : Len(w[i]) = T

\* mutant of EpochInitialState: the state of the previous epoch is kept
EpochInitialState_Kept(s) == s

\* new_state = sess.run(model.initial_state) at the start of an epoch (s is
\* the value new_state held before)
EpochInitialState(s) == 0

\* new_state = sess.run(model.initial_state) before the validation windows
ValInitialState(s) == 0

\* (iteration%save_every_n == 0) or (iteration == iterations)
SaveDue(it, every, total) == (it % every = 0) \/ (it = total)

\* The training cell up to its epoch loop.  batch_size, num_steps, epochs and
\* save_every_n are the cell's hyperparameters and the split fraction is
\* split_data's (0.9 where the notebook leaves it out); split_data raising
\* ends the cell.
TrainCell ==
    /\ pc = "cells"
    /\ \E B \in 1..MaxB, T \in 1..MaxT, f \in SplitFracs,
          ep \in 1..MaxEpochs, every \in 1..MaxSaveEvery :
         LET r == split_data(chars, B, T, f) IN
         /\ batch_size' = B
         /\ num_steps' = T
         /\ split_frac' = f
         /\ epochs' = ep
         /\ save_every_n' = every
         /\ train_x' = r.train_x
         /\ train_y' = r.train_y
         /\ val_x' = r.val_x
         /\ val_y' = r.val_y
         /\ IF r.raised # ""
            THEN /\ pc' = r.raised
                 /\ UNCHANGED <<n_batches, iterations>>
            ELSE /\ pc' = "epoch"
                 /\ n_batches' = Cols(r.train_x) \div T
                 /\ iterations' = (Cols(r.train_x) \div T) * ep
    /\ e' = 0
    /\ UNCHANGED <<pickVars, rerun_vocab_to_int, text, vocabVars, genVars, b, iteration, new_state, loss,
                   val_loss, vb, checkpoints, opt_steps, evals, sampleVars>>

\* for e in range(epochs): new_state = initial_state; loss = 0; the training
\* generator is made
EpochStart ==
    /\ pc = "epoch"
    /\ e < epochs
    /\ new_state' = EpochInitialState(new_state)
    /\ loss' = <<>>
    /\ b' = 0
    /\ pc' = "train"
    /\ UNCHANGED <<pickVars, rerun_vocab_to_int, text, vocabVars, splitVars, genVars, epochs, save_every_n,
                   n_batches, iterations, e, iteration, val_loss, vb,
                   checkpoints, opt_steps, evals, sampleVars>>

\* range(epochs) is exhausted: the cell ends
TrainCellEnd ==
    /\ pc = "epoch"
    /\ e = epochs
    /\ pc' = "done"
    /\ UNCHANGED <<pickVars, rerun_vocab_to_int, text, vocabVars, splitVars, genVars, trainVars, evals, sampleVars>>

\* One pass of the body of the training for loop up to the save test: the
\* next (x, y) of get_batch([train_x, train_y], num_steps) is fed with
\* new_state, the optimizer runs, new_state becomes the returned final_state
\* and batch_loss is added to loss.
TrainStep ==
    /\ pc = "train"
    /\ b < Len(get_batch(<<train_x, train_y>>, num_steps))
    /\ LET w == get_batch(<<train_x, train_y>>, num_steps)[b + 1]
           it == e * n_batches + (b + 1)
           id == Len(evals) + 1
       IN /\ b' = b + 1
          /\ iteration' = it
          /\ IF FeedOk(w[1], batch_size, num_steps)
                /\ FeedOk(w[2], batch_size, num_steps)
             THEN /\ evals' = Append(evals,
                        [pass |-> "train", e |-> e, b |-> b + 1,
                         iteration |-> it, fed |-> new_state,
                         x |-> w[1], y |-> w[2], keep_prob |-> "0.5"])
                  /\ new_state' = id
                  /\ opt_steps' = opt_steps + 1
                  /\ loss' = Append(loss, id)
                  /\ pc' = IF SaveDue(it, save_every_n, iterations)
                           THEN "val_start" ELSE "train"
             ELSE /\ pc' = "ValueError"
                  /\ UNCHANGED <<evals, new_state, opt_steps, loss>>
    /\ UNCHANGED <<pickVars, rerun_vocab_to_int, text, vocabVars, splitVars, genVars, epochs, save_every_n,
                   n_batches, iterations, e, val_loss, vb, checkpoints,
                   sampleVars>>

\* the training generator is exhausted: next epoch
EpochEnd ==
    /\ pc = "train"
    /\ b = Len(get_batch(<<train_x, train_y>>, num_steps))
    /\ e' = e + 1
    /\ pc' = "epoch"
    /\ UNCHANGED <<pickVars, rerun_vocab_to_int, text, vocabVars, splitVars, genVars, epochs, save_every_n,
                   n_batches, iterations, b, iteration, new_state, loss,
                   val_loss, vb, checkpoints, opt_steps, evals, sampleVars>>

\* val_loss = []; new_state = initial_state; the validation generator is made
ValStart ==
    /\ pc = "val_start"
    /\ val_loss' = <<>>
    /\ new_state' = ValInitialState(new_state)
    /\ vb' = 0
    /\ pc' = "val"
    /\ UNCHANGED <<pickVars, rerun_vocab_to_int, text, vocabVars, splitVars, genVars, epochs, save_every_n,
                   n_batches, iterations, e, b, iteration, loss, checkpoints,
                   opt_steps, evals, sampleVars>>

\* One pass of the validation for loop: the next (x, y) of
\* get_batch([val_x, val_y], num_steps) is fed with new_state, without the
\* optimizer; new_state becomes the returned final_state.
ValStep ==
    /\ pc = "val"
    /\ vb < Len(get_batch(<<val_x, val_y>>, num_steps))
    /\ LET w == get_batch(<<val_x, val_y>>, num_steps)[vb + 1]
           id == Len(evals) + 1
       IN /\ vb' = vb + 1
          /\ IF FeedOk(w[1], batch_size, num_steps)
                /\ FeedOk(w[2], batch_size, num_steps)
             THEN /\ evals' = Append(evals,
                        [pass |-> "val", e |-> e, b |-> vb + 1,
                         iteration |-> iteration, fed |-> new_state,
                         x |-> w[1], y |-> w[2], keep_prob |-> "1."])
                  /\ new_state' = id
                  /\ val_loss' = Append(val_loss, id)
                  /\ pc' = "val"
             ELSE /\ pc' = "ValueError"
                  /\ UNCHANGED <<evals, new_state, val_loss>>
    /\ UNCHANGED <<pickVars, rerun_vocab_to_int, text, vocabVars, splitVars, genVars, epochs, save_every_n,
                   n_batches, iterations, e, b, iteration, loss, checkpoints,
                   opt_steps, sampleVars>>

\* the validation generator is exhausted: saver.save(sess, "i{iteration}_...")
SaveCheckpoint ==
    /\ pc = "val"
    /\ vb = Len(get_batch(<<val_x, val_y>>, num_steps))
    /\ checkpoints' = Append(checkpoints,
           [iteration |-> iteration, val_loss |-> val_loss,
            opt_steps |-> opt_steps])
    /\ pc' = "train"
    /\ UNCHANGED <<pickVars, rerun_vocab_to_int, text, vocabVars, splitVars, genVars, epochs, save_every_n,
                   n_batches, iterations, e, b, iteration, new_state, loss,
                   val_loss, vb, opt_steps, evals, sampleVars>>

C9_PassesStartFromZeroState ==
    \A j \in DOMAIN evals :
      evals[j].b = 1 => evals[j].fed = 0

\* C9 witness: a second epoch has started its first window and a validation
\* pass has evaluated its first window after some training evaluation, so a
\* non-zero state existed before each of the two.
C9_Witness ==
    /\ \E j \in DOMAIN evals :
         evals[j].pass = "train" /\ evals[j].e = 1 /\ evals[j].b = 1 /\ j > 1
    /\ \E j \in DOMAIN evals :
         /\ evals[j].pass = "val" /\ evals[j].b = 1
         /\ evals[j - 1].pass = "train"

\* C10: a corpus shorter than batch_size*num_steps (n_batches = 0) makes the
\* training cell fail with an error: it never goes on with empty matrices.
C10_ShortCorpusFails ==
    (/\ pc \notin {"vocab", "cells"}
     /\ NBatches(chars, batch_size, num_steps) = 0)
    => pc \in {"ValueError", "KeyError"}

\* the training cell has ended, normally or by an exception raised in its
\* loop (split_data returned)
TrainLoopEnded ==
    /\ pc \in {"done", "ValueError"}
    /\ Len(train_x) = batch_size

TrainEvals == {j \in DOMAIN evals : evals[j].pass = "train"}

\* C15: a validation pass and one checkpoint save follow training iteration
\* k exactly when k is a multiple of save_every_n or k is the total iteration
\* count; so when the training split has at least one window the run ends
\* with a checkpoint of the final iteration, and each checkpoint is keyed by
\* the iteration it was taken at.
C15_CheckpointSchedule ==
    TrainLoopEnded =>
      /\ \A k \in 1..iterations :
           SaveDue(k, save_every_n, iterations) <=>
             \E m \in DOMAIN checkpoints : checkpoints[m].iteration = k
      /\ \A m \in DOMAIN checkpoints :
           /\ checkpoints[m].iteration \in 1..iterations
           /\ checkpoints[m].opt_steps = checkpoints[m].iteration
           /\ \A k \in DOMAIN checkpoints[m].val_loss :
                evals[checkpoints[m].val_loss[k]].iteration
                  = checkpoints[m].iteration
      /\ (GetBatchCount(<<train_x, train_y>>, num_steps) >= 1 /\ epochs >= 1)
           => \E m \in DOMAIN checkpoints :
                checkpoints[m].iteration = iterations

\* C17: the training loop ends after exactly epochs*n_batches training
\* evaluations with n_batches = floor(train columns / num_steps): each epoch
\* evaluates each training window once in increasing column order, the
\* iteration numbers run through 1..epochs*n_batches in increasing order,
\* and no two checkpoints have the same iteration.
C17_TrainLoopCount ==
    TrainLoopEnded =>
      /\ n_batches = Cols(train_x) \div num_steps
      /\ Cardinality(TrainEvals) = epochs * n_batches
      /\ \A k \in 1..(epochs * n_batches) :
           \E j \in TrainEvals :
             /\ evals[j].iteration = k
             /\ evals[j].e = (k - 1) \div n_batches
             /\ evals[j].b = ((k - 1) % n_batches) + 1
             /\ evals[j].x =
                  ColSlice(train_x, (evals[j].b - 1) * num_steps,
                           evals[j].b * num_steps)
      /\ \A j1, j2 \in TrainEvals :
           j1 < j2 => evals[j1].iteration < evals[j2].iteration
      /\ \A m1, m2 \in DOMAIN checkpoints :
           m1 # m2 => checkpoints[m1].iteration # checkpoints[m2].iteration

\* C18: each validation pass evaluates every validation window once in
\* increasing column order, right after the training evaluation it follows,
\* and makes no optimizer step: the optimizer has run once per training
\* evaluation and the pass leaves the iteration counter as it was.
C18_ValidationPass ==
    TrainLoopEnded =>
      /\ opt_steps = Cardinality(TrainEvals)
      /\ \A j \in TrainEvals :
           SaveDue(evals[j].iteration, save_every_n, iterations) =>
             \A k \in 1..GetBatchCount(<<val_x, val_y>>, num_steps) :
               /\ (j + k) \in DOMAIN evals
               /\ evals[j + k].pass = "val"
               /\ evals[j + k].b = k
               /\ evals[j + k].iteration = evals[j].iteration
               /\ evals[j + k].x =
                    ColSlice(val_x, (k - 1) * num_steps, k * num_steps)
      /\ Cardinality({j \in DOMAIN evals : evals[j].pass = "val"})
           = Len(checkpoints) * GetBatchCount(<<val_x, val_y>>, num_steps)


\* ------------------------------------------------------------ pick_top_n
\* np.argsort(p): the indices in an order of non-decreasing p; the default
\* sort is not stable, so equal entries come in any order.
ArgSorts(p) ==
    {o \in Orders(DOMAIN p) :
        \A k1, k2 \in DOMAIN o : k1 < k2 => p[o[k1]] <= p[o[k2]]}

\* mutant of AllButLast: the last top_n indices are the ones taken
AllButLast_Last(o, top_n) ==
    {o[k] : k \in (IF top_n >= Len(o) THEN 1 ELSE Len(o) - top_n + 1)..Len(o)}

\* o[:-top_n]: all but the last top_n indices (none when top_n >= len(o))
AllButLast(o, top_n) ==
    {o[k] : k \in 1..(IF top_n = 0 THEN 0 ELSE Len(o) - top_n)}

\* p[argsort[:-top_n]] = 0 for the argsort o
ZeroOthers(p, o, top_n) ==
    [j \in DOMAIN p |-> IF j \in AllButLast(o, top_n) THEN 0 ELSE p[j]]

RECURSIVE SumTo(_, _)
SumTo(p, n) == IF n < 0 THEN 0 ELSE p[n] + SumTo(p, n - 1)

\* The outcomes of pick_top_n when argsort returns the order o
PickOutcomes(p, o, vocab_size, top_n) ==
    IF Cardinality(DOMAIN p) # vocab_size
       \/ SumTo(ZeroOthers(p, o, top_n), Cardinality(DOMAIN p) - 1) = 0
    THEN {-1}
    ELSE {j \in DOMAIN p : ZeroOthers(p, o, top_n)[j] > 0}

\* The values pick_top_n(preds, vocab_size, top_n) can return for the
\* distribution p over the codes 0..len(p)-1: p[argsort[:-top_n]] = 0,
\* p = p / sum(p), then an index drawn with probability p; np.random.choice
\* raises ValueError for a p of another length than vocab_size or of sum 0
\* (the outcome -1 here).
pick_top_n(p, vocab_size, top_n) ==
    UNION {PickOutcomes(p, o, vocab_size, top_n) : o \in ArgSorts(p)}

\* top_n=5 of pick_top_n
TopNDefault == 5

\* The distributions a network over V classes can return, as integer
\* weights that are not all zero.
PredVectors(V) ==
    {p \in [0..(V - 1) -> 0..MaxWeight] : \E j \in 0..(V - 1) : p[j] > 0}


\* pick_top_n(preds, V, top_n) called on its own, for a distribution over V
\* codes: the array after the zeroing and the index returned, or ValueError.
PickTopNCall ==
    /\ pc = "cells"
    /\ \E V \in 1..MaxV, n \in 1..MaxTopN :
       \E q \in PredVectors(V) :
       \E o \in ArgSorts(q) :
         /\ pick_preds' = q
         /\ pick_top' = n
         /\ pick_p' = ZeroOthers(q, o, n)
         /\ \E r \in PickOutcomes(q, o, V, n) :
              /\ pick_c' = r
              /\ pc' = IF r = -1 THEN "ValueError" ELSE "picked"
    /\ UNCHANGED <<rerun_vocab_to_int, text, vocabVars, splitVars, genVars,
                   trainVars, evals, sampleVars>>

\* --------------------------------------------------------- pick_top_n claims
\* C11: for every probability vector over V codes and every top_n >= 1 the
\* index pick_top_n returns has nonzero probability in the original vector
\* and is one of the top_n highest-probability indices (fewer than top_n
\* indices have a higher probability); when top_n >= V no entry is zeroed.
C11_PickedIsTopN ==
    pc = "picked" =>
      /\ pick_c \in DOMAIN pick_preds
      /\ pick_preds[pick_c] > 0
      /\ Cardinality({j \in DOMAIN pick_preds :
                        pick_preds[j] > pick_preds[pick_c]}) < pick_top
      /\ pick_p[pick_c] = pick_preds[pick_c]
      /\ Cardinality({j \in DOMAIN pick_p : pick_p[j] > 0}) <= pick_top
      /\ pick_top >= Cardinality(DOMAIN pick_preds) => pick_p = pick_preds

\* C11 witness: three codes of weights 2, 1, 1 and top_n = 2: one of the two
\* tied codes was zeroed and the other one was returned.
C11_Witness ==
    /\ pc = "picked"
    /\ pick_top = 2
    /\ pick_preds = [j \in 0..2 |-> IF j = 0 THEN 2 ELSE 1]
    /\ pick_p # pick_preds
    /\ pick_c # 0

\* the priming strings callers pass: short strings over F and a, the "Far"
\* of the notebook's calls and the default "The "
Primes ==
    SeqsUpTo({"F", "a"}, MaxPrime)
      \cup {<<"F", "a", "r">>, <<"T", "h", "e", " ">>}

\* ------------------------------------------------------------------ sample
\* the first statement of sample: prime = "Far"
SamplePrime(arg) == <<"F", "a", "r">>

\* the number of passes of the generation loop: for i in range(n_samples)
GenLoopCount(n) == n

\* mutant of SampleEval: the zero state is fed whatever state is passed
SampleEval_ZeroState(phase, k, code, st) ==
    [pass |-> phase, e |-> 0, b |-> k, iteration |-> 0, fed |-> 0,
     x |-> <<<<code>>>>, y |-> <<>>, keep_prob |-> "1."]

\* An evaluation of the sampling network (batch_size 1, num_steps 1) on the
\* code fed in x with the state fed in st, as the k-th evaluation of a phase.
SampleEval(phase, k, code, st) ==
    [pass |-> phase, e |-> 0, b |-> k, iteration |-> 0, fed |-> st,
     x |-> <<<<code>>>>, y |-> <<>>, keep_prob |-> "1."]

\* sample(checkpoint, n_samples, lstm_size, len(vocab), prime=arg) up to the
\* priming loop: prime, samples, the restored session, new_state.
SampleCall ==
    /\ pc = "cells"
    /\ \E arg \in Primes, n \in 0..MaxSamples :
         /\ prime_arg' = arg
         /\ n_samples' = n
         /\ prime' = SamplePrime(arg)
         /\ samples' = SamplePrime(arg)
    /\ sample_state' = 0
    /\ pk' = 0
    /\ picks' = <<>>
    /\ pc' = "prime_loop"
    /\ UNCHANGED <<pickVars, rerun_vocab_to_int, text, vocabVars, splitVars, genVars, trainVars, evals,
                   preds, s_x, s_c, s_i, result>>

\* One pass of for c in prime: x[0,0] = vocab_to_int[c] (KeyError for a
\* character outside the vocabulary), then preds, new_state = sess.run(...).
PrimeStep ==
    /\ pc = "prime_loop"
    /\ pk < Len(prime)
    /\ pk' = pk + 1
    /\ IF prime[pk + 1] \in DOMAIN vocab_to_int
       THEN /\ s_x' = vocab_to_int[prime[pk + 1]]
            /\ evals' = Append(evals,
                  SampleEval("prime", pk + 1, vocab_to_int[prime[pk + 1]],
                             sample_state))
            /\ preds' = Len(evals) + 1
            /\ sample_state' = Len(evals) + 1
            /\ pc' = "prime_loop"
       ELSE /\ pc' = "KeyError"
            /\ UNCHANGED <<s_x, evals, preds, sample_state>>
    /\ UNCHANGED <<pickVars, rerun_vocab_to_int, text, vocabVars, splitVars, genVars, trainVars,
                   prime_arg, n_samples, prime, samples, s_c, s_i, result,
                   picks>>

\* After the priming loop: c = pick_top_n(preds, len(vocab));
\* samples.append(int_to_vocab[c]).  preds is unbound when prime is empty.
FirstPick ==
    /\ pc = "prime_loop"
    /\ pk = Len(prime)
    /\ IF preds = 0
       THEN /\ pc' = "NameError"
            /\ UNCHANGED <<s_c, samples, s_i, picks>>
       ELSE \E p \in PredVectors(Cardinality(vocab)) :
            \E r \in pick_top_n(p, Cardinality(vocab), TopNDefault) :
              IF r = -1
              THEN /\ pc' = "ValueError"
                   /\ UNCHANGED <<s_c, samples, s_i, picks>>
              ELSE /\ s_c' = r
                   /\ samples' = Append(samples, int_to_vocab[r])
                   /\ picks' = Append(picks, [from |-> preds, c |-> r])
                   /\ s_i' = 0
                   /\ pc' = "gen_loop"
    /\ UNCHANGED <<pickVars, rerun_vocab_to_int, text, vocabVars, splitVars, genVars, trainVars, evals,
                   prime_arg, n_samples, prime, sample_state, preds, s_x, pk,
                   result>>

\* One pass of for i in range(n_samples): x[0,0] = c; preds, new_state =
\* sess.run(...); c = pick_top_n(preds, len(vocab));
\* samples.append(int_to_vocab[c]).
GenStep ==
    /\ pc = "gen_loop"
    /\ s_i < GenLoopCount(n_samples)
    /\ s_x' = s_c
    /\ evals' = Append(evals, SampleEval("gen", s_i + 1, s_c, sample_state))
    /\ preds' = Len(evals) + 1
    /\ sample_state' = Len(evals) + 1
    /\ s_i' = s_i + 1
    /\ \E p \in PredVectors(Cardinality(vocab)) :
       \E r \in pick_top_n(p, Cardinality(vocab), TopNDefault) :
         IF r = -1
         THEN /\ pc' = "ValueError"
              /\ UNCHANGED <<s_c, samples, picks>>
         ELSE /\ s_c' = r
              /\ samples' = Append(samples, int_to_vocab[r])
              /\ picks' = Append(picks,
                     [from |-> Len(evals) + 1, c |-> r])
              /\ pc' = "gen_loop"
    /\ UNCHANGED <<pickVars, rerun_vocab_to_int, text, vocabVars, splitVars, genVars, trainVars,
                   prime_arg, n_samples, prime, pk, result>>

\* return ''.join(samples)
SampleReturn ==
    /\ pc = "gen_loop"
    /\ s_i = GenLoopCount(n_samples)
    /\ result' = samples
    /\ pc' = "sampled"
    /\ UNCHANGED <<pickVars, rerun_vocab_to_int, text, vocabVars, splitVars, genVars, trainVars, evals,
                   prime_arg, n_samples, prime, samples, sample_state, preds,
                   s_x, s_c, s_i, pk, picks>>

\* ------------------------------------------------------------ sample claims
IsPrefix(s, t) == Len(s) <= Len(t) /\ SubSeq(t, 1, Len(s)) = s

\* C3: for every n_samples >= 0 sample returns its priming string followed
\* by exactly n_samples generated characters, so the result has
\* len(prime) + n_samples characters and with n_samples = 0 it is the priming
\* string unchanged.
C3_SampleLength ==
    pc = "sampled" =>
      /\ IsPrefix(prime, result)
      /\ Len(result) = Len(prime) + n_samples
      /\ n_samples = 0 => result = prime

\* C4: the text sample returns begins with the priming string the caller
\* passed in the prime argument, and the characters of that string, in
\* order, are what is fed through the model to build the initial state.
C4_CallerPrimeUsed ==
    pc = "sampled" =>
      /\ IsPrefix(prime_arg, result)
      /\ \A k \in DOMAIN prime_arg :
           /\ k \in DOMAIN evals
           /\ evals[k].pass = "prime"
           /\ prime_arg[k] \in DOMAIN vocab_to_int
           /\ evals[k].x = <<<<vocab_to_int[prime_arg[k]]>>>>
      /\ \A k \in DOMAIN evals :
           evals[k].pass = "prime" => k \in DOMAIN prime_arg

\* C12: when the priming string passed to sample has a character that is
\* not in the vocabulary, sample raises an error and returns no text.
C12_UnknownPrimeCharReported ==
    pc = "sampled" =>
      \A k \in DOMAIN prime_arg : prime_arg[k] \in DOMAIN vocab_to_int

\* The evaluations of sample so far are one chain: the priming characters in
\* order, then the generation steps, each fed the state the step before it
\* returned (the zero state for the first); the first pick uses the preds of
\* the last priming step and no other priming preds is used; each generation
\* step feeds the index picked last and its preds is used for the next pick.
SampleChain ==
    /\ \A k \in DOMAIN evals :
         /\ evals[k].fed = k - 1
         /\ k <= Len(prime) =>
              /\ evals[k].pass = "prime"
              /\ evals[k].x = <<<<vocab_to_int[prime[k]]>>>>
         /\ k > Len(prime) =>
              /\ evals[k].pass = "gen"
              /\ (k - Len(prime)) \in DOMAIN picks
              /\ evals[k].x = <<<<picks[k - Len(prime)].c>>>>
    /\ \A m \in DOMAIN picks :
         /\ picks[m].from = Len(prime) + m - 1
         /\ samples[Len(prime) + m] = int_to_vocab[picks[m].c]

\* the number of evaluations that were fed the state evaluation j returned
Consumers(j) == Cardinality({k \in DOMAIN evals : evals[k].fed = j})

\* C16 (as stated): in sample the evaluations are one chain (priming
\* characters in order, then the picked characters, each step fed the state
\* of the step before, only the last priming preds picked from) and every
\* returned state is consumed by exactly one later step.
C16_EveryStateConsumedOnce ==
    pc = "sampled" =>
      /\ SampleChain
      /\ \A j \in DOMAIN evals : Consumers(j) = 1

\* C16 (amended): in sample the evaluations are one chain as above; every
\* returned state but the last is consumed by exactly one later step, the
\* next one, and the state the last step returned is consumed by none.
C16_StatesThreadedButLast ==
    pc \in {"prime_loop", "gen_loop", "sampled"} =>
      /\ SampleChain
      /\ \A j \in DOMAIN evals :
           Consumers(j) = IF j < Len(evals) THEN 1 ELSE 0
      /\ pc = "sampled" =>
           /\ Len(evals) = Len(prime) + GenLoopCount(n_samples)
           /\ Len(picks) = GenLoopCount(n_samples) + 1

\* C16 witness: sample has returned after three priming steps and two
\* generation steps.
C16_Witness ==
    /\ pc = "sampled"
    /\ Len(prime) = 3
    /\ Len(evals) = 5
    /\ evals[5].pass = "gen"
    /\ evals[5].fed = 4

\* ------------------------------------------------------- specifications
InitCommon ==
    /\ pc = "vocab"
    /\ vocab = {}
    /\ vocab_to_int = <<>>
    /\ int_to_vocab = <<>>
    /\ chars = <<>>
    /\ batch_size = 0
    /\ num_steps = 0
    /\ split_frac = <<0, 1>>
    /\ train_x = <<>>
    /\ train_y = <<>>
    /\ val_x = <<>>
    /\ val_y = <<>>
    /\ arrs = <<>>
    /\ gb_steps = 0
    /\ yielded = <<>>
    /\ epochs = 0
    /\ save_every_n = 0
    /\ n_batches = 0
    /\ iterations = 0
    /\ e = 0
    /\ b = 0
    /\ iteration = 0
    /\ new_state = 0
    /\ loss = <<>>
    /\ val_loss = <<>>
    /\ vb = 0
    /\ checkpoints = <<>>
    /\ opt_steps = 0
    /\ evals = <<>>
    /\ prime_arg = <<>>
    /\ n_samples = 0
    /\ prime = <<>>
    /\ samples = <<>>
    /\ sample_state = 0
    /\ preds = 0
    /\ s_x = 0
    /\ s_c = 0
    /\ s_i = 0
    /\ pk = 0
    /\ result = <<>>
    /\ picks = <<>>
    /\ pick_preds = <<>>
    /\ pick_top = 0
    /\ pick_p = <<>>
    /\ pick_c = 0
    /\ rerun_vocab_to_int = <<>>

\* every text of at most MaxLen characters over a two-letter alphabet
InitSplit ==
    /\ text \in SeqsUpTo({"A", "B"}, MaxLen)
    /\ InitCommon

NextSplit == VocabularyCell \/ SplitDataCall

SpecSplit == InitSplit /\ [][NextSplit]_vars

\* a text of L characters that repeats A B B
PatternText(L) == [k \in 1..L |-> IF k % 3 = 1 THEN "A" ELSE "B"]

InitBatch ==
    /\ text \in {PatternText(L) : L \in 0..MaxLen}
    /\ InitCommon

NextBatch ==
    \/ VocabularyCell
    \/ SplitDataCall
    \/ GetBatchCall
    \/ GetBatchNext
    \/ GetBatchStop

SpecBatch == InitBatch /\ [][NextBatch]_vars

InitTrain ==
    /\ text \in {PatternText(L) : L \in 0..MaxLen}
    /\ InitCommon

NextTrain ==
    \/ VocabularyCell
    \/ TrainCell
    \/ EpochStart
    \/ TrainStep
    \/ EpochEnd
    \/ ValStart
    \/ ValStep
    \/ SaveCheckpoint
    \/ TrainCellEnd

SpecTrain == InitTrain /\ [][NextTrain]_vars

\* texts with and without the characters of "Far"
SampleTexts ==
    {<<"F", "a", "r">>, <<"r", "a", "F", "a">>, <<"F", "a">>,
     <<"T", "h", "e", " ">>}

InitSample ==
    /\ text \in SampleTexts
    /\ InitCommon

NextSample ==
    \/ VocabularyCell
    \/ SampleCall
    \/ PrimeStep
    \/ FirstPick
    \/ GenStep
    \/ SampleReturn

SpecSample == InitSample /\ [][NextSample]_vars

\* every text of at most MaxVocabLen characters over three letters
InitVocab ==
    /\ text \in SeqsUpTo({"A", "B", "C"}, MaxVocabLen)
    /\ InitCommon

NextVocab == VocabularyCell \/ VocabularyCellRerun

SpecVocab == InitVocab /\ [][NextVocab]_vars

InitPick ==
    /\ text \in {<<"A", "B">>}
    /\ InitCommon

NextPick == VocabularyCell \/ PickTopNCall

SpecPick == InitPick /\ [][NextPick]_vars

====
